---- MODULE Spec2Model ----
(***************************************************************************)
(* SelfieSegmentationProcessor (demos/browser/app/meetingV2/videofilter):   *)
(* a video frame processor that hands frames to an asynchronous            *)
(* segmentation backend, waits for the mask through a single-slot deferred *)
(* (mask$) and composites a blurred-background frame on its own canvas.    *)
(*                                                                         *)
(* JavaScript runs each handler to its next await, so one action is one    *)
(* such run: ProcessStart is process() up to `await maskPromise` (or to    *)
(* its return when the gate does not run), ProcessResume is the rest.      *)
(***************************************************************************)
EXTENDS Integers, Sequences, FiniteSets, TLC

VARIABLES
    isReady,            \* this.isReady
    selfieSegmentation, \* "open", or "undefined" after destroy()
    targetCanvas,       \* this.targetCanvas: [defined, width, height]
    canvasCtx,          \* this.canvasCtx: bitmap and drawing state
    sourceWidth,        \* this.sourceWidth
    sourceHeight,       \* this.sourceHeight
    blurAmount,         \* this.blurAmount
    frames,             \* this.frames
    time,               \* this.time (0, or 1 for any later clock reading)
    fpsTimer,           \* TRUE while the interval timer is installed
    reduceFactor,       \* this.reduceFactor
    runningCount,       \* this.runningCount
    scaleFactor,        \* this.scaleFactor, a fraction <<num, den>>
    maskDeferred,       \* this.mask$: [value, waiter]
    calls,              \* process() calls suspended at `await maskPromise`
    backend,            \* images sent to the backend and not yet answered
    nCalls,             \* process() calls made so far
    returned,           \* what the last settled process() call produced
    lastSend,           \* the last image handed to selfieSegmentation.send
    lastComposite,      \* the last run of the composite passes
    hist                \* the run so far: frames fed, images sent, ...

vars == <<isReady, selfieSegmentation, targetCanvas, canvasCtx, sourceWidth,
          sourceHeight, blurAmount, frames, time, fpsTimer, reduceFactor,
          runningCount, scaleFactor, maskDeferred, calls, backend, nCalls,
          returned, lastSend, lastComposite, hist>>

----------------------------------------------------------------------------
(* Bounds of the exploration *)

MaxTicks == 4        \* process() calls per run
MaxDim == 2          \* frame widths are 0..MaxDim, heights 0 or MaxDim
MaxPeriod == 2       \* gate periods explored by SpecPeriod
MaxBlur == 1         \* blur strengths explored by SpecComposite
NPix == 2            \* sample points of an image
AlphaMax == 2        \* alpha of an opaque sample point
MaxComposites == 2   \* composite passes per run of SpecComposite
Strength == 1        \* the blur strength the processor is constructed with

(* Program constants *)

DefaultCanvasWidth == 300   \* a new canvas element is 300 x 150
DefaultCanvasHeight == 150
DefaultReduceFactor == 1

Undefined == "undefined"                \* of selfieSegmentation
NoCanvas == [defined |-> FALSE, width |-> 0, height |-> 0]
NoMask == 0                             \* an absent (undefined) mask
NoCall == 0

----------------------------------------------------------------------------
(* Images and the 2D context.  An image is sampled at NPix points in        *)
(* normalised coordinates, so drawing it stretched to the canvas maps point *)
(* p to point p.  A sample is [a, c]: alpha and premultiplied colour.       *)

Pixels == 1..NPix
Transparent == [a |-> 0, c |-> 0]
Opaque(colour) == [a |-> AlphaMax, c |-> colour * AlphaMax]
ClearImage == [p \in Pixels |-> Transparent]

\* a frame is opaque, in two colours; a mask sample is transparent, partly
\* opaque or opaque
Colours == {1, 2}
FrameImages == [Pixels -> {Opaque(k) : k \in Colours}]
MaskImages == [Pixels -> {[a |-> al, c |-> al] : al \in {0, 1, AlphaMax}}]

\* the images the processor runs use when their content is not the subject
DefaultImage == [p \in Pixels |-> Opaque(1)]
DefaultMask == [p \in Pixels |-> IF p = 1 THEN [a |-> AlphaMax, c |-> AlphaMax]
                                          ELSE Transparent]

DefaultCtx == [pix |-> ClearImage, gco |-> "source-over", filter |-> 0,
               stack |-> <<>>]

RECURSIVE SumOver(_, _, _)
SumOver(f, lo, hi) == IF lo > hi THEN 0 ELSE f[lo] + SumOver(f, lo + 1, hi)

Max2(a, b) == IF a > b THEN a ELSE b
Min2(a, b) == IF a < b THEN a ELSE b

\* filter = blur(s px): a box average over radius s, transparent outside the
\* image; strength 0 is no filter
BlurAt(img, s, p) ==
    IF s = 0 THEN img[p]
    ELSE LET lo == Max2(1, p - s)
             hi == Min2(NPix, p + s)
         IN [a |-> SumOver([q \in Pixels |-> img[q].a], lo, hi) \div (2 * s + 1),
             c |-> SumOver([q \in Pixels |-> img[q].c], lo, hi) \div (2 * s + 1)]

Blur(img, s) == [p \in Pixels |-> BlurAt(img, s, p)]

\* Porter-Duff on premultiplied samples
Scale(px, k) == [a |-> (px.a * k) \div AlphaMax, c |-> (px.c * k) \div AlphaMax]
Plus(x, y) == [a |-> x.a + y.a, c |-> x.c + y.c]

Blend(gco, src, dst) ==
    CASE gco = "source-over" -> Plus(src, Scale(dst, AlphaMax - src.a))
      [] gco = "source-in" -> Scale(src, dst.a)
      [] gco = "destination-over" -> Plus(dst, Scale(src, AlphaMax - dst.a))

CtxSave(ctx) ==
    [ctx EXCEPT !.stack = Append(@, [gco |-> ctx.gco, filter |-> ctx.filter])]

CtxRestore(ctx) ==
    IF ctx.stack = <<>> THEN ctx
    ELSE [ctx EXCEPT !.gco = ctx.stack[Len(ctx.stack)].gco,
                     !.filter = ctx.stack[Len(ctx.stack)].filter,
                     !.stack = SubSeq(ctx.stack, 1, Len(ctx.stack) - 1)]

ClearRect(ctx) == [ctx EXCEPT !.pix = ClearImage]

DrawImage(ctx, img) ==
    [ctx EXCEPT !.pix = [p \in Pixels |->
                            Blend(ctx.gco, BlurAt(img, ctx.filter, p), ctx.pix[p])]]

SetComposite(ctx, op) == [ctx EXCEPT !.gco = op]

SetBlurFilter(ctx, strength) ==
    IF strength > 0 THEN [ctx EXCEPT !.filter = strength] ELSE ctx

\* canvasCtx.fillText(fps + " FPS", 20, 20): opaque black over sample point 1
FillText(ctx) == [ctx EXCEPT !.pix[1] = Blend(ctx.gco, Opaque(0), ctx.pix[1])]

\* lines 148-153: save, clear, draw the mask
MaskPass(ctx, maskPix) == DrawImage(ClearRect(CtxSave(ctx)), maskPix)

\* lines 157-159: draw the frame over the mask only
ForegroundPass(ctx, framePix) ==
    DrawImage(SetComposite(ctx, "source-in"), framePix)

\* lines 162-165: draw the (blurred) frame under the person, restore
BackgroundPass(ctx, framePix, strength) ==
    CtxRestore(DrawImage(SetBlurFilter(SetComposite(ctx, "destination-over"),
                                       strength), framePix))

\* lines 148-165 without a throw
CompositePasses(ctx, maskPix, framePix, strength) ==
    BackgroundPass(ForegroundPass(MaskPass(ctx, maskPix), framePix),
                   framePix, strength)

\* lines 148-149 when drawImage(mask) throws (the mask was released): the
\* context is saved and cleared and nothing after runs
CompositeThrown(ctx) == ClearRect(CtxSave(ctx))

\* the draw calls between save() and restore(): lines 151/153, 159 and 164
ThrowPoints == {"mask", "foreground", "background"}

\* lines 148-164 up to the draw call that throws: what was set before it
\* stays, restore() at line 165 is not reached (the catch at 170 has none)
CompositeThrownAt(ctx, maskPix, framePix, strength, at) ==
    CASE at = "mask" -> CompositeThrown(ctx)
      [] at = "foreground" -> SetComposite(MaskPass(ctx, maskPix), "source-in")
      [] at = "background" ->
            SetBlurFilter(SetComposite(ForegroundPass(MaskPass(ctx, maskPix),
                                                      framePix),
                                       "destination-over"), strength)

\* the part of the drawing state a composite pass depends on
DrawingState(ctx) == [gco |-> ctx.gco, filter |-> ctx.filter]

----------------------------------------------------------------------------
(* Frames, scale factors, masks *)

\* buffers[0]: canvas = FALSE when asCanvasElement() yields nothing
Frames == {[width |-> w, height |-> h, canvas |-> TRUE] :
                 w \in 0..MaxDim, h \in {0, MaxDim}}
              \cup {[width |-> 0, height |-> 0, canvas |-> FALSE]}

NoFrame == [width |-> 0, height |-> 0, canvas |-> FALSE]

One == <<1, 1>>
Half == <<1, 2>>
ScaleFactors == {One, Half}

\* canvas.width = inputCanvas.width * scaleFactor: the product is converted
\* to an unsigned long, which drops the fraction
ScaledDim_RoundUp(d, f) == (d * f[1] + f[2] - 1) \div f[2]

ScaledDim(d, f) == (d * f[1]) \div f[2]

\* line 107
DoScale(f) == f # One

\* line 111
GateRuns(count, period) == count = period

ResetCount_NoReset(count) == count

\* a reset that takes the remainder by 2
ResetCount_Mod2(count) == count % 2

\* line 112
ResetCount(count) == count % 1

AwaitedMask_Cached(cached, delivered) == cached

\* line 137: the value the awaited promise resolved with replaces the value
\* read at line 110
AwaitedMask(cached, delivered) == delivered

\* line 143: `if (mask)`
MaskAvailable(mask) == mask # NoMask

NoReturn == [id |-> 0, out |-> "none", how |-> "none", mask |-> NoMask,
             ran |-> FALSE, width |-> 0, height |-> 0, frame |-> <<0, 0>>]

NoSend == [of |-> 0, width |-> 0, height |-> 0, srcWidth |-> 0,
           srcHeight |-> 0, factor |-> One, scaled |-> FALSE, waiter |-> 0]

NoComposite == [n |-> 0, mask |-> ClearImage, frame |-> ClearImage,
                strength |-> 0, out |-> ClearImage, threw |-> FALSE,
                start |-> DrawingState(DefaultCtx)]

\* microtasks (the continuation of a resolved await) run before any other task
NoMicrotask == \A c \in calls : c.pc # "resolved"

----------------------------------------------------------------------------
(* Construction: field initialisers and the constructor, lines 18-68 *)

InitWith(periods, strengths) ==
    /\ isReady = FALSE
    /\ selfieSegmentation = "open"
    /\ targetCanvas = [defined |-> TRUE, width |-> DefaultCanvasWidth,
                       height |-> DefaultCanvasHeight]
    /\ canvasCtx = DefaultCtx
    /\ sourceWidth = 0
    /\ sourceHeight = 0
    /\ blurAmount \in strengths
    /\ frames = 0
    /\ time = 0
    /\ fpsTimer = TRUE
    /\ reduceFactor \in periods
    /\ runningCount = reduceFactor
    /\ scaleFactor = One
    /\ maskDeferred = [value |-> NoMask, waiter |-> NoCall]
    /\ calls = {}
    /\ backend = <<>>
    /\ nCalls = 0
    /\ returned = NoReturn
    /\ lastSend = NoSend
    /\ lastComposite = NoComposite
    /\ hist = [fed |-> 0, sent |-> 0, rejected |-> {}, published |-> NoMask,
               frame |-> NoFrame]

Init == InitWith({DefaultReduceFactor}, {Strength})

ProcessorState == <<isReady, selfieSegmentation, targetCanvas, canvasCtx,
                    sourceWidth, sourceHeight, blurAmount, frames, time,
                    fpsTimer, reduceFactor, runningCount, scaleFactor,
                    maskDeferred>>

----------------------------------------------------------------------------
(* DeferredObservable (mask$) *)

\* mask$.whenNext() by call id: a new pending future replaces the slot
WhenNext(d, id) == [d EXCEPT !.waiter = id]

\* mask$.next(v): store v and resolve the pending future, if any
Publish(d, v) == [value |-> v, waiter |-> NoCall]

\* the calls after mask$.next(v): the registered waiter's await resolves with v
Resolved(cs, d, v) ==
    {IF c.id = d.waiter /\ c.pc = "await"
        THEN [c EXCEPT !.pc = "resolved", !.mask = v] ELSE c : c \in cs}

----------------------------------------------------------------------------
(* process(), lines 81-178 *)

\* the value process() settles with: out is "input" (the caller's buffers),
\* "target" (buffers[0] = canvasVideoFrameBuffer) or "rejected" (it threw)
Return(id, fr, out, how, mask, ran, tc) ==
    returned' = [id |-> id, out |-> out, how |-> how, mask |-> mask, ran |-> ran,
                 frame |-> fr,
                 width |-> tc.width, height |-> tc.height]

\* lines 142-177: count the frame, composite when there is a mask, return.
\* count, tc, ctx and h are the counter, target canvas, context and run
\* counters as the lines before left them; points are the draw calls that
\* can throw in this tick (the frame's canvas can only have been released
\* while the call was suspended, line 94 checked it before).
TickRest(id, fr, mask, ran, count, tc, ctx, h, points) ==
    /\ runningCount' = count + 1
    /\ IF MaskAvailable(mask)
       THEN IF ~tc.defined
            THEN \* `const { width, height } = targetCanvas` throws, caught
                 /\ canvasCtx' = ctx
                 /\ UNCHANGED lastComposite
                 /\ hist' = h
                 /\ Return(id, fr, "input", "compositeThrew", mask, ran, tc)
            ELSE \/ \E at \in points :
                    \* a drawImage throws, caught
                    /\ canvasCtx' = CompositeThrownAt(ctx, DefaultMask,
                                                      DefaultImage, blurAmount, at)
                    /\ lastComposite' = [lastComposite EXCEPT
                                            !.threw = TRUE,
                                            !.start = DrawingState(ctx)]
                    /\ hist' = h
                    /\ Return(id, fr, "input", "compositeThrew", mask, ran, tc)
                 \/ LET done == CompositePasses(ctx, DefaultMask,
                                                  DefaultImage, blurAmount)
                      IN /\ canvasCtx' = FillText(done)
                         /\ lastComposite' =
                              [n |-> lastComposite.n, mask |-> DefaultMask,
                               frame |-> DefaultImage, strength |-> blurAmount,
                               out |-> done.pix, threw |-> FALSE,
                               start |-> DrawingState(ctx)]
                         /\ hist' = h
                         /\ Return(id, fr, "target", "composited", mask, ran, tc)
       ELSE \* no mask: nothing is drawn, line 175 still runs
            /\ canvasCtx' = ctx
            /\ UNCHANGED lastComposite
            /\ hist' = h
            /\ Return(id, fr, "target", "noMask", mask, ran, tc)

EarlyReturn_NoReadyCheck(ready, frame) ==
    IF ~frame.canvas THEN "released"
    ELSE IF frame.width = 0 \/ frame.height = 0 THEN "degenerate"
    ELSE ""

EarlyReturn_BothZero(ready, frame) ==
    IF ~ready THEN "notReady"
    ELSE IF ~frame.canvas THEN "released"
    ELSE IF frame.width = 0 /\ frame.height = 0 THEN "degenerate"
    ELSE ""

\* lines 82-96: the early returns, "" when the frame goes on
EarlyReturn(ready, frame) ==
    IF ~ready THEN "notReady"
    ELSE IF ~frame.canvas THEN "released"
    ELSE IF frame.width = 0 \/ frame.height = 0 THEN "degenerate"
    ELSE ""

\* a size test that looks at the height only
SizeChanged_HeightOnly(frame) == sourceHeight # frame.height

\* line 98
SizeChanged(frame) == sourceWidth # frame.width \/ sourceHeight # frame.height

\* a process() that calls send() first and whenNext() after it
WaiterAtSend_SendFirst(d, id) == d.waiter

\* lines 128-132: the call mask$ resolves next at the moment send() is
\* called; whenNext() at line 128 has run by then
WaiterAtSend(d, id) == WhenNext(d, id).waiter

\* a process() that never looks at the factor updateScaleFactor() stored
ImageToSend_FactorIgnored(id, frame, f, w) ==
    [of |-> id, srcWidth |-> frame.width, srcHeight |-> frame.height,
     factor |-> One, scaled |-> FALSE, waiter |-> w,
     width |-> frame.width, height |-> frame.height]

\* lines 114-132: the canvas handed to the backend, and the waiter w that is
\* registered as it is handed over
ImageToSend(id, frame, f, w) ==
    [of |-> id, srcWidth |-> frame.width, srcHeight |-> frame.height,
     factor |-> f, scaled |-> DoScale(f), waiter |-> w,
     width |-> IF DoScale(f) THEN ScaledDim(frame.width, f) ELSE frame.width,
     height |-> IF DoScale(f) THEN ScaledDim(frame.height, f) ELSE frame.height]

\* process(buffers) from its entry to its return or to `await maskPromise`
ProcessStart(frame, overlap) ==
    /\ nCalls < MaxTicks
    /\ NoMicrotask
    /\ overlap \/ calls = {}
    /\ nCalls' = nCalls + 1
    /\ UNCHANGED <<isReady, selfieSegmentation, blurAmount, frames, time,
                   fpsTimer, reduceFactor, scaleFactor>>
    /\ LET id == nCalls + 1
           fr == <<frame.width, frame.height>>
       IN
       IF EarlyReturn(isReady, frame) # ""
       THEN /\ Return(id, fr, "input", EarlyReturn(isReady, frame), NoMask,
                      FALSE, targetCanvas)
            /\ hist' = [hist EXCEPT !.frame = frame]
            /\ UNCHANGED <<targetCanvas, canvasCtx, sourceWidth, sourceHeight,
                           runningCount, maskDeferred, calls, backend,
                           lastSend, lastComposite>>
       ELSE IF SizeChanged(frame) /\ ~targetCanvas.defined
       THEN \* line 103 throws outside the try: the promise rejects
            /\ sourceWidth' = frame.width
            /\ sourceHeight' = frame.height
            /\ Return(id, fr, "rejected", "thrown", NoMask, FALSE, targetCanvas)
            /\ hist' = [hist EXCEPT !.frame = frame]
            /\ UNCHANGED <<targetCanvas, canvasCtx, runningCount, maskDeferred,
                           calls, backend, lastSend, lastComposite>>
       ELSE LET tc == IF SizeChanged(frame)
                         THEN [defined |-> TRUE, width |-> frame.width,
                               height |-> frame.height]
                         ELSE targetCanvas
                \* setting a canvas's width or height resets its context
                ctx == IF SizeChanged(frame) THEN DefaultCtx ELSE canvasCtx
                h == [hist EXCEPT !.fed = @ + 1, !.frame = frame]
                cached == maskDeferred.value
            IN
            /\ sourceWidth' = frame.width
            /\ sourceHeight' = frame.height
            /\ targetCanvas' = tc
            /\ IF GateRuns(runningCount, reduceFactor)
               THEN /\ runningCount' = ResetCount(runningCount)
                    /\ maskDeferred' = WhenNext(maskDeferred, id)
                    /\ canvasCtx' = ctx
                    /\ UNCHANGED lastComposite
                    /\ IF selfieSegmentation = Undefined
                       THEN \* this.selfieSegmentation.send throws, caught
                            /\ Return(id, fr, "input", "sendThrew", cached, TRUE, tc)
                            /\ hist' = h
                            /\ UNCHANGED <<calls, backend, lastSend>>
                       ELSE /\ backend' = Append(backend,
                                 ImageToSend(id, frame, scaleFactor,
                                             WaiterAtSend(maskDeferred, id)))
                            /\ lastSend' =
                                 ImageToSend(id, frame, scaleFactor,
                                             WaiterAtSend(maskDeferred, id))
                            /\ calls' = calls \cup
                                 {[id |-> id, pc |-> "await", cached |-> cached,
                                   mask |-> NoMask, frame |-> fr]}
                            /\ hist' = [h EXCEPT !.sent = @ + 1]
                            /\ UNCHANGED returned
               ELSE /\ TickRest(id, fr, cached, FALSE, runningCount, tc, ctx, h,
                                    {"mask"})
                    /\ UNCHANGED <<maskDeferred, calls, backend, lastSend>>

\* process() from the resolved `await maskPromise` to its return
ProcessResume(c) ==
    /\ c \in calls
    /\ c.pc = "resolved"
    /\ frames' = frames + 1
    /\ calls' = calls \ {c}
    /\ TickRest(c.id, c.frame, AwaitedMask(c.cached, c.mask), TRUE,
                runningCount, targetCanvas, canvasCtx, hist, ThrowPoints)
    /\ UNCHANGED <<isReady, selfieSegmentation, targetCanvas, sourceWidth,
                   sourceHeight, blurAmount, time, fpsTimer, reduceFactor,
                   scaleFactor, maskDeferred, backend, nCalls, lastSend>>

----------------------------------------------------------------------------
(* The backend and the other handlers *)

\* selfieSegmentation.initialize().then(...), line 54
InitializeDone ==
    /\ NoMicrotask
    /\ ~isReady
    /\ isReady' = TRUE
    /\ UNCHANGED <<selfieSegmentation, targetCanvas, canvasCtx, sourceWidth,
                   sourceHeight, blurAmount, frames, time, fpsTimer,
                   reduceFactor, runningCount, scaleFactor, maskDeferred,
                   calls, backend, nCalls, returned, lastSend, lastComposite,
                   hist>>

\* the onResults callback, lines 50-53, for the oldest image sent
OnResults ==
    /\ NoMicrotask
    /\ backend # <<>>
    /\ LET v == Head(backend).of   \* the mask computed from that image
       IN /\ maskDeferred' = Publish(maskDeferred, v)
          /\ calls' = Resolved(calls, maskDeferred, v)
    /\ backend' = Tail(backend)
    /\ hist' = [hist EXCEPT !.published = Head(backend).of]
    /\ UNCHANGED <<isReady, selfieSegmentation, targetCanvas, canvasCtx,
                   sourceWidth, sourceHeight, blurAmount, frames, time,
                   fpsTimer, reduceFactor, runningCount, scaleFactor, nCalls,
                   returned, lastSend, lastComposite>>

\* the promise of send() rejects: the catch of lines 132-134 logs it and no
\* onResults follows for that image
SendRejected ==
    /\ NoMicrotask
    /\ backend # <<>>
    /\ backend' = Tail(backend)
    /\ hist' = [hist EXCEPT !.rejected = @ \cup {Head(backend).of}]
    /\ UNCHANGED <<isReady, selfieSegmentation, targetCanvas, canvasCtx,
                   sourceWidth, sourceHeight, blurAmount, frames, time,
                   fpsTimer, reduceFactor, runningCount, scaleFactor,
                   maskDeferred, calls, nCalls, returned, lastSend,
                   lastComposite>>

\* the interval callback, lines 58-67 (fps itself only feeds the overlay text)
FpsTick ==
    /\ NoMicrotask
    /\ fpsTimer
    /\ \E elapsed \in BOOLEAN :
         frames' = IF time > 0 /\ elapsed THEN 0 ELSE frames
    /\ time' = 1
    /\ UNCHANGED <<isReady, selfieSegmentation, targetCanvas, canvasCtx,
                   sourceWidth, sourceHeight, blurAmount, fpsTimer,
                   reduceFactor, runningCount, scaleFactor, maskDeferred,
                   calls, backend, nCalls, returned, lastSend, lastComposite,
                   hist>>

\* a destroy() that releases the canvas but keeps the reference to it
Destroy_KeepsCanvas ==
    /\ NoMicrotask
    /\ selfieSegmentation # Undefined
    /\ selfieSegmentation' = Undefined
    /\ fpsTimer' = FALSE
    /\ UNCHANGED <<isReady, targetCanvas, canvasCtx, sourceWidth, sourceHeight,
                   blurAmount, frames, time, reduceFactor, runningCount,
                   scaleFactor, maskDeferred, calls, backend, nCalls, returned,
                   lastSend, lastComposite, hist>>

\* destroy(), lines 180-188
Destroy ==
    /\ NoMicrotask
    /\ selfieSegmentation # Undefined
    /\ selfieSegmentation' = Undefined
    /\ targetCanvas' = NoCanvas
    /\ fpsTimer' = FALSE
    /\ UNCHANGED <<isReady, canvasCtx, sourceWidth, sourceHeight, blurAmount,
                   frames, time, reduceFactor, runningCount, scaleFactor,
                   maskDeferred, calls, backend, nCalls, returned, lastSend,
                   lastComposite, hist>>

\* updateScaleFactor(scale), lines 190-197 (after destroy() the log line
\* throws, once the factor is stored)
UpdateScaleFactor(scale) ==
    /\ NoMicrotask
    /\ scale # scaleFactor
    /\ scaleFactor' = scale
    /\ UNCHANGED <<isReady, selfieSegmentation, targetCanvas, canvasCtx,
                   sourceWidth, sourceHeight, blurAmount, frames, time,
                   fpsTimer, reduceFactor, runningCount, maskDeferred, calls,
                   backend, nCalls, returned, lastSend, lastComposite, hist>>

\* one run of the composite passes and the overlay on the target canvas
CompositeTick(maskPix, framePix, at) ==
    /\ lastComposite.n < MaxComposites
    /\ LET done == CompositePasses(canvasCtx, maskPix, framePix, blurAmount)
       IN IF at \in ThrowPoints
          THEN /\ canvasCtx' = CompositeThrownAt(canvasCtx, maskPix, framePix,
                                                 blurAmount, at)
               /\ lastComposite' = [n |-> lastComposite.n + 1, mask |-> maskPix,
                                    frame |-> framePix, strength |-> blurAmount,
                                    out |-> ClearImage, threw |-> TRUE,
                                    start |-> DrawingState(canvasCtx)]
          ELSE /\ canvasCtx' = FillText(done)
               /\ lastComposite' = [n |-> lastComposite.n + 1, mask |-> maskPix,
                                    frame |-> framePix, strength |-> blurAmount,
                                    out |-> done.pix, threw |-> FALSE,
                                    start |-> DrawingState(canvasCtx)]
    /\ UNCHANGED <<isReady, selfieSegmentation, targetCanvas, sourceWidth,
                   sourceHeight, blurAmount, frames, time, fpsTimer,
                   reduceFactor, runningCount, scaleFactor, maskDeferred,
                   calls, backend, nCalls, returned, lastSend, hist>>

----------------------------------------------------------------------------
(* Specifications *)

Environment ==
    \/ InitializeDone
    \/ OnResults
    \/ SendRejected
    \/ FpsTick
    \/ Destroy
    \/ \E scale \in ScaleFactors : UpdateScaleFactor(scale)
    \/ \E c \in calls : ProcessResume(c)

\* the caller awaits each process() before the next
Next ==
    \/ \E frame \in Frames : ProcessStart(frame, FALSE)
    \/ Environment

Spec == Init /\ [][Next]_vars

\* the same, for every gate period
InitPeriod == InitWith(1..MaxPeriod, {Strength})
SpecPeriod == InitPeriod /\ [][Next]_vars

\* the caller does not await: process() calls may overlap
NextOverlap ==
    \/ \E frame \in Frames : ProcessStart(frame, TRUE)
    \/ Environment

SpecOverlap == Init /\ [][NextOverlap]_vars

\* the composite passes on every mask, frame and strength
InitComposite == InitWith({DefaultReduceFactor}, 0..MaxBlur)
NextComposite ==
    \E framePix \in FrameImages :
        \/ \E maskPix \in MaskImages : CompositeTick(maskPix, framePix, "none")
        \/ \E at \in ThrowPoints : CompositeTick(DefaultMask, framePix, at)

SpecComposite == InitComposite /\ [][NextComposite]_vars

----------------------------------------------------------------------------
(* Properties *)

\* what the gate and the resize keep of the processor
GateAndSize == <<runningCount, sourceWidth, sourceHeight, targetCanvas>>

\* C1: the promise returned by process() never rejects, whatever the order of
\* initialisation, process(), updateScaleFactor(), results and destroy().
C1_ProcessNeverRejects == returned.out # "rejected"

\* C2: every process() call completes: a call whose image the backend
\* rejected is not left suspended with no answer to come.
C2_RejectedSendStillReturns ==
    \A c \in calls :
        c.id \in hist.rejected => (c.pc = "resolved" \/ backend # <<>>)

ReachedComposite(r) == r.how \in {"composited", "compositeThrew", "noMask"}

\* C4: on a gate-run tick the awaited future resolves with the value the next
\* onResults publishes, which is the mask of the tick's own frame, and a tick
\* that does not run inference reads the value published last.
C4_Handoff ==
    [][/\ \A c \in calls' :
             (c.pc = "resolved" /\ c \notin calls)
                => (c.mask = hist'.published /\ c.mask = c.id)
       /\ (returned'.id # returned.id /\ ReachedComposite(returned'))
             => /\ returned'.mask = hist.published
                /\ returned'.ran => returned'.mask = returned'.id]_vars

C4_Witness ==
    /\ ReachedComposite(returned)
    /\ ~returned.ran
    /\ returned.mask # NoMask
    /\ returned.mask < returned.id
    /\ selfieSegmentation = "open"

\* C5: while isReady is false every process() call returns its input and
\* sends nothing, and leaves the counter, the observed size and the target
\* canvas as they were.
C5_NotReadyPassThrough ==
    [][(~isReady /\ nCalls' # nCalls)
          => /\ returned'.id = nCalls'
             /\ returned'.out = "input"
             /\ UNCHANGED <<GateAndSize, backend, lastSend, calls, canvasCtx,
                            maskDeferred>>]_vars

C5_Witness ==
    /\ returned.how = "notReady"
    /\ returned.frame = <<MaxDim, MaxDim>>

Degenerate(frame) == ~frame.canvas \/ frame.width = 0 \/ frame.height = 0

\* C6: a frame of width 0 or height 0, or one whose canvas is gone, comes
\* back as the input, and the call neither advances the counter, nor resizes
\* the target canvas, nor sends anything.
C6_DegeneratePassThrough ==
    [][(nCalls' # nCalls /\ Degenerate(hist'.frame))
          => /\ returned'.id = nCalls'
             /\ returned'.out = "input"
             /\ UNCHANGED <<GateAndSize, backend, lastSend, calls, canvasCtx,
                            maskDeferred>>]_vars

C6_Witness ==
    /\ isReady
    /\ returned.how = "degenerate"
    /\ returned.frame = <<MaxDim, 0>>

\* C7: a call that reaches the composite step returns the processor's own
\* buffer only if it composited a mask; with no mask it returns the input.
C7_TargetOnlyWhenComposited ==
    returned.out = "target" => returned.how = "composited"

\* C8: after destroy() a late answer of the backend (onResults, or the
\* promise of send settling) changes nothing of the processor.
C8_LateCompletionNoEffect ==
    [][(selfieSegmentation = Undefined /\ Len(backend') < Len(backend))
          => UNCHANGED ProcessorState]_vars

\* C9: with scale factor 1/2 the image sent has half the frame's width and
\* height, fractions dropped, and the buffer the call returns has the
\* frame's own width and height.
C9_HalfScale ==
    lastSend.factor = Half
        => /\ lastSend.scaled
           /\ lastSend.width = lastSend.srcWidth \div 2
           /\ lastSend.height = lastSend.srcHeight \div 2
           /\ (returned.id = lastSend.of /\ returned.out = "target")
                 => /\ returned.width = lastSend.srcWidth
                    /\ returned.height = lastSend.srcHeight

C9_Witness ==
    /\ lastSend.factor = Half
    /\ returned.id = lastSend.of
    /\ returned.out = "target"
    /\ lastSend.srcWidth = 1
    /\ lastSend.srcHeight = 2
    /\ lastSend.width = 0
    /\ lastSend.height = 1

\* C10: after the composite passes every sample where the mask is opaque is
\* the frame's sample, and every sample where the mask is transparent is the
\* blurred frame's sample (the frame's own at strength 0).
C10_Composite ==
    (lastComposite.n > 0 /\ ~lastComposite.threw)
        => \A p \in Pixels :
              /\ lastComposite.mask[p].a = AlphaMax
                    => lastComposite.out[p] = lastComposite.frame[p]
              /\ lastComposite.mask[p].a = 0
                    => lastComposite.out[p]
                          = Blur(lastComposite.frame, lastComposite.strength)[p]

\* a submitted image whose result is still to come always finds its own call
\* registered as the waiter of mask$
C11_Registered ==
    /\ lastSend.of # NoCall => lastSend.waiter = lastSend.of
    /\ \A i \in 1..Len(backend) :
          \E c \in calls : /\ c.id = backend[i].of
                           /\ c.pc = "await"
                           /\ maskDeferred.waiter = c.id

\* C11: on a tick whose gate runs, process() has registered its waiter by the
\* time it submits the frame, so a result that comes at any later time
\* resolves that call; a call submits at most one frame, and only when the
\* gate runs.
C11_WaiterBeforeSend ==
    /\ []C11_Registered
    /\ [][hist'.sent # hist.sent
            => /\ hist'.sent = hist.sent + 1
               /\ runningCount = reduceFactor
               /\ nCalls' = nCalls + 1
               /\ lastSend'.of = nCalls'
               /\ backend' = Append(backend, lastSend')]_vars

C11_Witness ==
    /\ reduceFactor = 2
    /\ hist.fed = 3
    /\ hist.sent = 2
    /\ backend # <<>>
    /\ \E c \in calls : c.pc = "await" /\ c.id = lastSend.waiter

\* C12: for sequential calls whenNext() is only called when no earlier
\* whenNext() future is still unresolved, so mask$ never has more than one
\* pending waiter.
C12_OneWaiter ==
    [][(maskDeferred'.waiter # maskDeferred.waiter
          /\ maskDeferred'.waiter # NoCall)
            => maskDeferred.waiter = NoCall]_vars

\* C13: a process() call on a live processor that passes the readiness and
\* degenerate-frame checks leaves sourceWidth, sourceHeight and the target
\* canvas's size equal to its frame's size, and they still are when it
\* returns; the target canvas is resized only by a process() call whose frame
\* size differs from the size seen last, never by updateScaleFactor() or by
\* an inference result.
C13_TargetFollowsFrame ==
    [][/\ (nCalls' # nCalls /\ targetCanvas.defined
             /\ EarlyReturn(isReady, hist'.frame) = "")
          => /\ sourceWidth' = hist'.frame.width
             /\ sourceHeight' = hist'.frame.height
             /\ targetCanvas'.width = hist'.frame.width
             /\ targetCanvas'.height = hist'.frame.height
       /\ (returned' # returned /\ targetCanvas'.defined
             /\ returned'.how \in {"noMask", "composited", "compositeThrew"})
          => /\ targetCanvas'.width = returned'.frame[1]
             /\ targetCanvas'.height = returned'.frame[2]
             /\ sourceWidth' = returned'.frame[1]
             /\ sourceHeight' = returned'.frame[2]
       /\ (targetCanvas' # targetCanvas /\ targetCanvas'.defined)
          => /\ nCalls' # nCalls
             /\ EarlyReturn(isReady, hist'.frame) = ""
             /\ \/ sourceWidth # hist'.frame.width
                \/ sourceHeight # hist'.frame.height]_vars

\* after a composited frame of one size, a call with a frame of another size
\* has resized the target canvas and is suspended; the scale factor changed
C13_Witness ==
    /\ targetCanvas.defined
    /\ returned.how = "composited"
    /\ returned.frame = <<MaxDim, MaxDim>>
    /\ targetCanvas.width = 1
    /\ targetCanvas.height = MaxDim
    /\ sourceWidth = 1
    /\ scaleFactor = Half
    /\ \E c \in calls : c.frame = <<1, MaxDim>>

\* C14: updateScaleFactor(f) called while a process() call is suspended
\* changes nothing of that call: the image it submitted keeps the size
\* computed from the factor that was in force when the call started; the next
\* process() call is the first to use the new factor.
C14_FactorAtCallStart ==
    [][/\ scaleFactor' # scaleFactor
            => /\ backend' = backend
               /\ calls' = calls
               /\ lastSend' = lastSend
               /\ returned' = returned
               /\ targetCanvas' = targetCanvas
               /\ canvasCtx' = canvasCtx
       /\ hist'.sent # hist.sent
            => /\ lastSend'.factor = scaleFactor
               /\ lastSend'.scaled = (scaleFactor # One)
               /\ lastSend'.width
                    = (hist'.frame.width * scaleFactor[1]) \div scaleFactor[2]
               /\ lastSend'.height
                    = (hist'.frame.height * scaleFactor[1]) \div scaleFactor[2]
       /\ \A i \in 1..Len(backend') :
             \/ i = Len(backend') /\ hist'.sent # hist.sent
             \/ \E j \in 1..Len(backend) : backend[j] = backend'[i]]_vars

\* the factor was changed back to 1 while a call that submitted a half-size
\* image is suspended
C14_Witness ==
    /\ scaleFactor = One
    /\ backend # <<>>
    /\ \E c \in calls : /\ c.pc = "await"
                        /\ c.id = lastSend.of
                        /\ c.frame = <<MaxDim, MaxDim>>
    /\ lastSend = Head(backend)
    /\ lastSend.factor = Half
    /\ lastSend.width = MaxDim \div 2

\* C15: whatever factor updateScaleFactor() accepted, the image submitted for
\* a frame of at least 1x1 is at least 1x1; with the factor exactly 1 the
\* frame's own canvas is submitted, not a copy.
C15_ScaledAtLeastOne ==
    (lastSend.of # NoCall /\ lastSend.srcWidth >= 1 /\ lastSend.srcHeight >= 1)
        => /\ lastSend.width >= 1
           /\ lastSend.height >= 1
           /\ lastSend.factor = One
                 => /\ ~lastSend.scaled
                    /\ lastSend.width = lastSend.srcWidth
                    /\ lastSend.height = lastSend.srcHeight

\* C16: with gate period 1 every frame that passes the readiness and
\* degenerate-frame checks finds the gate open, and every such tick, whether
\* it ran inference, skipped it or threw, has advanced the counter back to the
\* period when it returns.
C16_NoTickSkipped ==
    [][/\ hist'.fed # hist.fed => runningCount = reduceFactor
       /\ (returned' # returned
             /\ returned'.how \in {"sendThrew", "noMask", "composited",
                                   "compositeThrew"})
            => runningCount' = reduceFactor]_vars

\* C17: destroy() can run to its end whatever inference is in flight, and a
\* process() call that was suspended when destroy() ran returns, once its
\* mask has come, the caller's input frame, with nothing drawn on the
\* released canvas.
C17_DestroyedResume ==
    /\ []((selfieSegmentation # Undefined /\ NoMicrotask) => ENABLED Destroy)
    /\ [][(calls' # calls /\ returned' # returned
             /\ selfieSegmentation = Undefined)
            => /\ returned'.out = "input"
               /\ returned'.mask # NoMask
               /\ canvasCtx' = canvasCtx
               /\ lastComposite' = lastComposite
               /\ UNCHANGED <<targetCanvas, selfieSegmentation, backend>>]_vars

\* a call resumed after destroy() with the mask of its own frame
C17_Witness ==
    /\ selfieSegmentation = Undefined
    /\ lastComposite = NoComposite
    /\ returned.how = "compositeThrew"
    /\ returned.ran
    /\ returned.out = "input"
    /\ returned.mask = returned.id
    /\ calls = {}

\* C18: for sequential calls the counter stays within 0..reduceFactor, so
\* the equality test of the gate is true exactly when the counter has reached
\* the period, and the counter is 0 right after the reset of each run.
C18_CounterBounds ==
    /\ [](/\ 0 <= runningCount
          /\ runningCount <= reduceFactor
          /\ (runningCount = reduceFactor) <=> (runningCount >= reduceFactor))
    /\ [][(hist'.fed # hist.fed /\ runningCount = reduceFactor)
            => /\ runningCount' = 0
               /\ maskDeferred'.waiter = nCalls']_vars

\* the second run of a gate of period 2 has just reset the counter
C18_Witness ==
    /\ reduceFactor = 2
    /\ runningCount = 0
    /\ hist.sent = 2
    /\ hist.fed = 3
    /\ maskDeferred.waiter = nCalls
    /\ calls # {}

\* C19: every composite pass starts with the output context in its default
\* drawing state (source-over, no blur filter), also on a tick that follows
\* one in which a draw call threw between save() and restore().
C19_DefaultStateAtStart == lastComposite.start = DrawingState(DefaultCtx)

\* C20: whatever the interleaving of process() calls, overlapping ones
\* included, the counter never exceeds reduceFactor, so the gate's equality
\* test can become true again and a later tick runs inference.
C20_GateNeverDisabled == runningCount <= reduceFactor

====
